---- MODULE Spec2Model ----
(***************************************************************************)
(* PreprocessedDataset (src/trainer/dataset.py): the eager encoding pass   *)
(* of __init__, the in-memory / on-disk example store, __getitem__,        *)
(* __len__ and get_aspect_ratio_bucketed_batch.                            *)
(***************************************************************************)
EXTENDS Integers, Sequences, FiniteSets, TLC

\* ------------------------------------------------------------------ bounds
\* Small manifests have 0..MaxRows rows; the two manifests around the
\* storage threshold are added to them.
MaxRows == 2
\* Batch sizes handed to the constructor are 1..MaxBatch (or None).
MaxBatch == 2
\* Cap on the number of BucketManager.get_batch() calls of one run.
MaxGetBatch == 2

\* ------------------------------------------------------- program constants
\* dataset.py:67  `len(self.data) < 500`
CacheThreshold == 500

\* ------------------------------------------------------------ Python values
\* An optional value is a sequence of length 0 (None) or 1.
None == << >>
Some(x) == << x >>

\* A Python list attribute that may also be None (lines 71-72 / 81-82).
NoneList == [is_none |-> TRUE, items |-> << >>]
EmptyList == [is_none |-> FALSE, items |-> << >>]

\* list.__getitem__ with an int: negative indices count from the end,
\* anything outside -len..len-1 raises IndexError.
PyListIndexOK(items, i) == (i >= 0 - Len(items)) /\ (i <= Len(items) - 1)
PyListGet(items, i) == IF i < 0 THEN items[Len(items) + i + 1] ELSE items[i + 1]

\* A positional lookup that accepts the negative indices a list accepts.
SeriesWrapsAround(n, i) == (i >= 0 - n) /\ (i <= n - 1)

\* pandas Series with the default RangeIndex of read_csv: series[i] is a
\* label lookup, KeyError for every i that is not a row label 0..n-1.
SeriesHasLabel(n, i) == (i >= 0) /\ (i <= n - 1)

\* torch.Tensor.squeeze(): drop every dimension of size 1.
IsNotOne(d) == d # 1
Squeeze(shape) == SelectSeq(shape, IsNotOne)

\* ------------------------------------------------------------------ inputs
RowCounts == (0 .. MaxRows) \cup {CacheThreshold - 1, CacheThreshold}

\* (w, h) pairs: the `size` argument (default [512, 512]) and the resolutions
\* a bucket can carry.
Resolutions == { <<512, 512>>, <<768, 512>> }

\* The injected vae_encoder: latent channel count and spatial reduction.
Encoders == { [channels |-> 4, down |-> 8] }

\* What the files and the manifest hold for one row when _process reads it.
\*   ok               image readable, mask (if the column exists) readable
\*   image_unreadable PIL.Image.open(image_path) raises
\*   mask_unreadable  PIL.Image.open(mask_path) raises
\*   mask_absent      the mask_path column exists, the row's value is NaN
RowKinds(mask_col) ==
    IF mask_col THEN {"ok", "image_unreadable", "mask_unreadable", "mask_absent"}
    ELSE {"ok", "image_unreadable"}

BatchSizes == {None} \cup { Some(b) : b \in 1 .. MaxBatch }

\* Indices a caller passes to __getitem__: around both ends of 0..n-1.
GetIndices(n) == {-1, 0, 1, n - 1, n}

VARIABLES
    n,                      \* len(self.data)
    mask_col,               \* "mask_path" in self.data.columns
    size,                   \* self.size
    encoder,                \* the injected vae_encoder
    bucketing_args,         \* aspect_ratio_bucketing and train_batch_size,
                            \* once line 92 has read them
    do_cache,               \* self.do_cache
    vae_latents,            \* self.vae_latents
    masks,                  \* self.masks
    disk,                   \* {idx}_vae_latent.pt / {idx}_mask.pt in data_dir
    idx,                    \* loop variable of the eager pass
    pc,                     \* position of the constructor / object state
    vae_encoder,            \* "held" while self.vae_encoder exists
    cuda_cache_emptied,     \* torch.cuda.empty_cache() has run
    encode_calls,           \* rows handed to vae_encoder.encode, in order
    bucket_manager,         \* self.bucket_manager (optional)
    get_batch_calls,        \* BucketManager.get_batch() calls so far
    error,                  \* exception that ended the constructor
    last                    \* outcome of the latest call on the dataset

vars == << n, mask_col, size, encoder, bucketing_args,
           do_cache, vae_latents, masks, disk, idx, pc, vae_encoder,
           cuda_cache_emptied, encode_calls, bucket_manager, get_batch_calls,
           error, last >>

\* Attributes and files that make up the example store.
store == << do_cache, vae_latents, masks, disk, encode_calls >>

\* ------------------------------------------------------------- the encoder
\* vae_encoder.encode(image).latent_dist for an image prepared at (w, h):
\* a distribution over tensors of shape (1, C, h/down, w/down).
LatentShape(enc, res) == << 1, enc.channels, res[2] \div enc.down, res[1] \div enc.down >>

\* ---------------------------------------------------------------- _process
\* The resolution prepare_image is called with (lines 148-155).
TransformResolution(bucketing_resolution) ==
    IF bucketing_resolution = None THEN size ELSE bucketing_resolution[1]

\* The mask of lines 160-175, before the squeeze of line 179.
OnesLikeMask(i, shape) == [row |-> i, build |-> "current", values |-> "ones", shape |-> shape]
FileMask(i, shape) ==
    [row |-> i, build |-> "current", values |-> "file",
     shape |-> << 1, 1 * shape[2], shape[3], shape[4] >>]

\* _process(idx, bucketing_resolution) on a row of the given kind: the
\* exception it raises ("" when it returns), whether the encoder was invoked
\* before that, and the (vae_latent, mask.squeeze()) it returns.
Process(i, kind, bucketing_resolution) ==
    LET res == TransformResolution(bucketing_resolution)
        shape == LatentShape(encoder, res)
        latent == [row |-> i, build |-> "current", res |-> res, shape |-> shape]
        raw_mask == IF ~mask_col THEN OnesLikeMask(i, shape) ELSE FileMask(i, shape)
        mask == [raw_mask EXCEPT !.shape = Squeeze(raw_mask.shape)]
        err == IF kind = "image_unreadable" THEN "FileNotFoundError"
               ELSE IF ~mask_col THEN ""
               ELSE IF kind = "mask_absent" THEN "TypeError"
               ELSE IF kind = "mask_unreadable" THEN "FileNotFoundError"
               ELSE ""
    IN  [err |-> err,
         encoded |-> (kind # "image_unreadable"),
         latent |-> Some(latent),
         mask |-> Some(mask)]

\* ----------------------------------------------------------------- storage
\* The threshold comparison with the boundary on the wrong side.
DoCacheInclusive(rows) == rows <= CacheThreshold

\* line 67
DoCache(rows) == rows < CacheThreshold

\* torch.save(obj, "{i}_<name>.pt"): create or overwrite one file.
SaveFile(files, i, obj) ==
    [ j \in (DOMAIN files) \cup {i} |-> IF j = i THEN obj ELSE files[j] ]

\* Artifacts an earlier on-disk build of `rows` rows (same size, same
\* encoder) has left in data_dir; fewer than 500 rows leave none.
EarlierArtifact(obj) == [obj EXCEPT !.build = "earlier"]
EarlierBuild(rows) ==
    LET saved == IF DoCache(rows) THEN {} ELSE 0 .. rows - 1 IN
    [latent |-> [ i \in saved |-> EarlierArtifact(Process(i, "ok", None).latent[1]) ],
     mask |-> [ i \in saved |-> EarlierArtifact(Process(i, "ok", None).mask[1]) ]]

\* ------------------------------------------------------------ call outcomes
NoCall ==
    [op |-> "none", idx |-> 0, res |-> None, status |-> "ok", err |-> "",
     value |-> << >>, indices |-> << >>, count |-> 0]
Raised(op, i, res, err) ==
    [op |-> op, idx |-> i, res |-> res, status |-> "fail", err |-> err,
     value |-> << >>, indices |-> << >>, count |-> 0]
Returned(op, i, res, value) ==
    [op |-> op, idx |-> i, res |-> res, status |-> "ok", err |-> "",
     value |-> value, indices |-> << >>, count |-> 0]

\* -------------------------------------------------------------------- Init
\* __init__ has run lines 42-72 (in memory) or 42-82 (on disk): the manifest
\* is loaded, the encoder is attached, the storage mode is chosen and the
\* eager pass is about to process row 0.  data_dir holds no artifacts or
\* those of an earlier build that had one row more.
Init ==
    /\ n \in RowCounts
    /\ mask_col \in BOOLEAN
    /\ size \in Resolutions
    /\ encoder \in Encoders
    /\ bucketing_args = None
    /\ do_cache = DoCache(n)
    /\ vae_latents = IF do_cache THEN EmptyList ELSE NoneList
    /\ masks = IF do_cache THEN EmptyList ELSE NoneList
    /\ disk \in { EarlierBuild(0), EarlierBuild(n + 1) }
    /\ idx = 0
    /\ pc = "encode"
    /\ vae_encoder = "held"
    /\ cuda_cache_emptied = FALSE
    /\ encode_calls = << >>
    /\ bucket_manager = None
    /\ get_batch_calls = 0
    /\ error = ""
    /\ last = NoCall

\* ---------------------------------------------------------------- __init__
\* One iteration of the eager pass, lines 74-77 (in memory) or 84-87 (on
\* disk), _process included.  An exception of _process leaves __init__: the
\* statements after the loop do not run and no object is returned.
ProcessRow ==
    /\ pc = "encode"
    /\ idx < n
    /\ \E kind \in RowKinds(mask_col) :
         LET r == Process(idx, kind, None) IN
         /\ encode_calls' = IF r.encoded THEN Append(encode_calls, idx) ELSE encode_calls
         /\ IF r.err # ""
            THEN /\ pc' = "failed"
                 /\ error' = r.err
                 /\ UNCHANGED << vae_latents, masks, disk, idx >>
            ELSE /\ IF do_cache
                    THEN /\ vae_latents' = [vae_latents EXCEPT !.items = Append(@, r.latent[1])]
                         /\ masks' = [masks EXCEPT !.items = Append(@, r.mask[1])]
                         /\ UNCHANGED disk
                    ELSE /\ disk' = [latent |-> SaveFile(disk.latent, idx, r.latent[1]),
                                     mask |-> SaveFile(disk.mask, idx, r.mask[1])]
                         /\ UNCHANGED << vae_latents, masks >>
                 /\ idx' = idx + 1
                 /\ UNCHANGED << pc, error >>
    /\ UNCHANGED << n, mask_col, size, encoder, bucketing_args,
                    do_cache, vae_encoder, cuda_cache_emptied, bucket_manager,
                    get_batch_calls, last >>

\* Lines 89-90, reached when the loop has run through all rows.
ReleaseEncoder ==
    /\ pc = "encode"
    /\ idx = n
    /\ vae_encoder' = "deleted"
    /\ cuda_cache_emptied' = TRUE
    /\ pc' = "bucketing"
    /\ UNCHANGED << n, mask_col, size, encoder, bucketing_args,
                    do_cache, vae_latents, masks, disk, idx, encode_calls,
                    bucket_manager, get_batch_calls, error, last >>

\* The batch size left unchecked.
BatchSizeUnchecked(bsz) == TRUE

\* The assert of line 94.
BatchSizeGiven(bsz) == bsz # None

\* BucketManager(aspect_ratios, bsz, debug) of lines 100-104.
NewBucketManager(bsz) == Some([bsz |-> bsz])

\* A manager built although bucketing is off.
DefaultBucketManager == Some([bsz |-> Some(1)])
\* Line 107.
NoBucketManager == None

\* Lines 92-107, for the aspect_ratio_bucketing and train_batch_size the
\* caller passed; __init__ returns the dataset unless the assert fails.
SetupBucketing ==
    /\ pc = "bucketing"
    /\ \E aspect_ratio_bucketing \in BOOLEAN, train_batch_size \in BatchSizes :
         /\ bucketing_args' = Some([aspect_ratio_bucketing |-> aspect_ratio_bucketing,
                                    train_batch_size |-> train_batch_size])
         /\ IF aspect_ratio_bucketing
            THEN IF BatchSizeGiven(train_batch_size)
                 THEN /\ bucket_manager' = NewBucketManager(train_batch_size)
                      /\ pc' = "ready"
                      /\ UNCHANGED error
                 ELSE /\ pc' = "failed"
                      /\ error' = "AssertionError"
                      /\ UNCHANGED bucket_manager
            ELSE /\ bucket_manager' = NoBucketManager
                 /\ pc' = "ready"
                 /\ UNCHANGED error
    /\ UNCHANGED << n, mask_col, size, encoder,
                    do_cache, vae_latents, masks, disk, idx, vae_encoder,
                    cuda_cache_emptied, encode_calls, get_batch_calls, last >>

\* ------------------------------------------------------------- __getitem__
\* vae_latent.sample() * self.vae_scaling_factor, then .squeeze().detach().
SampleScaled(dist) ==
    [row |-> dist.row, build |-> dist.build, res |-> dist.res,
     shape |-> Squeeze(dist.shape), scaled |-> TRUE]

\* The returned triple: self.captions[i] is the caption of row label i.
Triple(i, dist, mask) == [caption |-> i, latent |-> SampleScaled(dist), mask |-> mask]

\* __getitem__(idx, bucketing_resolution), lines 185-193.  The resolution is
\* accepted and not used.
GetItem(i, bucketing_resolution) ==
    IF do_cache
    THEN IF ~PyListIndexOK(vae_latents.items, i)
         THEN Raised("get", i, bucketing_resolution, "IndexError")
         ELSE IF ~SeriesHasLabel(n, i)
         THEN Raised("get", i, bucketing_resolution, "KeyError")
         ELSE IF ~PyListIndexOK(masks.items, i)
         THEN Raised("get", i, bucketing_resolution, "IndexError")
         ELSE Returned("get", i, bucketing_resolution,
                       Some(Triple(i, PyListGet(vae_latents.items, i),
                                   PyListGet(masks.items, i))))
    ELSE IF i \notin DOMAIN disk.latent
         THEN Raised("get", i, bucketing_resolution, "FileNotFoundError")
         ELSE IF i \notin DOMAIN disk.mask
         THEN Raised("get", i, bucketing_resolution, "FileNotFoundError")
         ELSE IF ~SeriesHasLabel(n, i)
         THEN Raised("get", i, bucketing_resolution, "KeyError")
         ELSE Returned("get", i, bucketing_resolution,
                       Some(Triple(i, disk.latent[i], disk.mask[i])))

\* A read that encodes on demand when a resolution is passed.
GetEncodingOnDemand ==
    /\ pc = "ready"
    /\ \E i \in GetIndices(n), r \in {None} \cup { Some(x) : x \in Resolutions } :
         /\ last' = GetItem(i, r)
         /\ encode_calls' = IF r # None /\ SeriesHasLabel(n, i) /\ Len(encode_calls) <= n
                             THEN Append(encode_calls, i) ELSE encode_calls
    /\ UNCHANGED << n, mask_col, size, encoder, bucketing_args,
                    do_cache, vae_latents, masks, disk, idx, pc, vae_encoder,
                    cuda_cache_emptied, bucket_manager, get_batch_calls, error >>

Get ==
    /\ pc = "ready"
    /\ \E i \in GetIndices(n), r \in {None} \cup { Some(x) : x \in Resolutions } :
         last' = GetItem(i, r)
    /\ UNCHANGED << n, mask_col, size, encoder, bucketing_args,
                    do_cache, vae_latents, masks, disk, idx, pc, vae_encoder,
                    cuda_cache_emptied, encode_calls, bucket_manager, get_batch_calls,
                    error >>

\* ----------------------------------------------------------------- __len__
DatasetLen ==
    /\ pc = "ready"
    /\ last' = [NoCall EXCEPT !.op = "len", !.count = n]
    /\ UNCHANGED << n, mask_col, size, encoder, bucketing_args,
                    do_cache, vae_latents, masks, disk, idx, pc, vae_encoder,
                    cuda_cache_emptied, encode_calls, bucket_manager, get_batch_calls,
                    error >>

\* ------------------------------------------ get_aspect_ratio_bucketed_batch
\* BucketManager.get_batch(): an ordered sequence of batch-size indices and
\* the one resolution they share.
BatchIndexPool(rows) == {0, rows - 1} \cap (0 .. rows - 1)
GetBatch(rows, bsz) ==
    IF bsz = None THEN {}
    ELSE { [indices |-> s, resolution |-> r] :
             s \in [1 .. bsz[1] -> BatchIndexPool(rows)], r \in Resolutions }

\* __init__ assigns no tokenizer_2 attribute and the class defines none.
Tokenizer2Assigned == FALSE

\* Lines 112-136 for the batch get_batch() returned.  Line 115 reads
\* self.tokenizer_2 for the first index; were the attribute there, line 116
\* would call __getitem__ and line 121 would call unsqueeze on the caption,
\* a str.
BatchOutcome(batch) ==
    LET first == GetItem(batch.indices[1], Some(batch.resolution))
        raised == IF ~Tokenizer2Assigned THEN "AttributeError"
                  ELSE IF first.status = "fail" THEN first.err
                  ELSE "AttributeError"
    IN  [Raised("batch", 0, Some(batch.resolution), raised)
            EXCEPT !.indices = batch.indices]

GetAspectRatioBucketedBatch ==
    /\ pc = "ready"
    /\ IF bucket_manager = None
       THEN /\ last' = Raised("batch", 0, None, "AssertionError")
            /\ UNCHANGED get_batch_calls
       ELSE /\ get_batch_calls < MaxGetBatch
            /\ \E batch \in GetBatch(n, bucket_manager[1].bsz) :
                 /\ get_batch_calls' = get_batch_calls + 1
                 /\ last' = BatchOutcome(batch)
    /\ UNCHANGED << n, mask_col, size, encoder, bucketing_args,
                    do_cache, vae_latents, masks, disk, idx, pc, vae_encoder,
                    cuda_cache_emptied, encode_calls, bucket_manager, error >>

\* ------------------------------------------------------------ specification
Next ==
    \/ ProcessRow
    \/ ReleaseEncoder
    \/ SetupBucketing
    \/ Get
    \/ DatasetLen
    \/ GetAspectRatioBucketedBatch

Spec == Init /\ [][Next]_vars

\* ------------------------------------------------------------------ claims
InRange(i) == (0 <= i) /\ (i < n)
BucketingOn == (bucketing_args # None) /\ bucketing_args[1].aspect_ratio_bucketing
BucketingOff == (bucketing_args # None) /\ ~bucketing_args[1].aspect_ratio_bucketing
\* The eager pass stopped at row idx.
PassFailed == (pc = "failed") /\ (idx < n)

\* C1: the storage mode is in_memory exactly when the manifest has fewer
\* than 500 rows, no step ever changes it, and in on_disk mode the
\* in-process latent and mask storage holds nothing.
C1_StorageModeFixed ==
    /\ [](/\ do_cache = (n < CacheThreshold)
          /\ do_cache => (~vae_latents.is_none /\ ~masks.is_none)
          /\ ~do_cache => (vae_latents = NoneList /\ masks = NoneList))
    /\ [][do_cache' = do_cache /\ n' = n]_vars

\* C1 witness: a 500-row dataset is ready in on_disk mode and has served a read.
C1_Witness ==
    /\ pc = "ready" /\ n = CacheThreshold /\ ~do_cache
    /\ last.op = "get" /\ last.status = "ok"

\* C2: a read with a resolution override returns a latent encoded at that
\* resolution.
C2_OverrideUsed ==
    (last.op = "get" /\ last.status = "ok" /\ last.res # None)
        => (last.value[1].latent.res = last.res[1])

\* C3: a read with an index outside 0..n-1 fails, returns no triple and
\* leaves the store as it was, in both storage modes.
C3_OutOfRangeReadFails ==
    [][ (last'.op = "get" /\ ~InRange(last'.idx))
            => (/\ last'.status = "fail"
                /\ last'.value = << >>
                /\ UNCHANGED store) ]_vars

\* C3 witness: on disk, the read of index n failed although data_dir holds
\* artifacts of an earlier build under that index.
C3_Witness ==
    /\ pc = "ready" /\ ~do_cache
    /\ last.op = "get" /\ last.idx = n /\ last.status = "fail"
    /\ n \in DOMAIN disk.latent /\ n \in DOMAIN disk.mask

\* C4: when the eager pass fails at a row, nothing of the rows processed
\* before it remains: no dataset is returned and data_dir holds no artifact
\* of this build.  (The in-process lists belong to the object that is never
\* returned.)
C4_NoPartialDataset ==
    PassFailed =>
        /\ \A i \in DOMAIN disk.latent : disk.latent[i].build # "current"
        /\ \A i \in DOMAIN disk.mask : disk.mask[i].build # "current"

\* C5: with bucketing disabled a bucketed-batch call fails on the assert,
\* before get_batch() is called and before any read, returns nothing and
\* changes nothing of the dataset.
C5_BatchNeedsBucketing ==
    [][ (pc = "ready" /\ BucketingOff /\ last'.op = "batch")
            => (/\ last'.status = "fail"
                /\ last'.err = "AssertionError"
                /\ last'.value = << >>
                /\ last'.indices = << >>
                /\ get_batch_calls = 0
                /\ UNCHANGED << store, bucket_manager, get_batch_calls, pc >>) ]_vars

\* C5 witness: a dataset built without bucketing has refused a batch call.
C5_Witness ==
    /\ pc = "ready" /\ BucketingOff
    /\ last.op = "batch" /\ last.err = "AssertionError"

\* C6: bucketing enabled without a batch size makes construction fail on the
\* assert; no dataset is returned and no bucket manager ever holds an
\* absent batch size.
C6_BatchSizeRequired ==
    /\ (BucketingOn /\ bucketing_args[1].train_batch_size = None)
          => (pc = "failed" /\ error = "AssertionError" /\ bucket_manager = None)
    /\ (bucket_manager # None) => (bucket_manager[1].bsz # None)

\* C6 witness: construction ended on the assert after a complete eager pass.
C6_Witness ==
    /\ pc = "failed" /\ error = "AssertionError" /\ idx = n
    /\ BucketingOn /\ bucketing_args[1].train_batch_size = None

\* C7: with bucketing enabled a bucketed-batch call returns a batch with one
\* entry per index get_batch() returned.
C7_BatchReturned ==
    (pc = "ready" /\ BucketingOn /\ last.op = "batch")
        => (last.status = "ok" /\ Len(last.value) = Len(last.indices))

\* C8: a row without a supplied mask path never makes construction fail,
\* and a read of such a row returns an all-ones mask shaped like the latent.
C8_DefaultMask ==
    /\ ~(PassFailed /\ mask_col /\ error = "TypeError")
    /\ (last.op = "get" /\ last.status = "ok" /\ ~mask_col)
          => (/\ last.value[1].mask.values = "ones"
              /\ last.value[1].mask.shape = last.value[1].latent.shape)

\* C9: the encoder is invoked once per row in index order, only during the
\* eager pass while the encoder is held; once the dataset is returned no
\* call invokes it or touches a stored example.
C9_EncodedOnce ==
    /\ [](/\ \A k \in 1 .. Len(encode_calls) : encode_calls[k] = k - 1
          /\ (idx = n) => (Len(encode_calls) = n))
    /\ [][ /\ (encode_calls' # encode_calls) => (pc = "encode" /\ vae_encoder = "held")
           /\ (pc = "ready") => UNCHANGED store ]_vars

\* C9 witness: a ready dataset of at least two rows has served a read with
\* a resolution override and the encoder log is still 0..n-1.
C9_Witness ==
    /\ pc = "ready" /\ n >= 2 /\ Len(encode_calls) = n /\ vae_encoder = "deleted"
    /\ last.op = "get" /\ last.status = "ok" /\ last.res # None

\* C10: however construction ends, the encoder has been released and the
\* device memory reclaimed.
C10_EncoderReleased ==
    (pc \in {"bucketing", "ready", "failed"})
        => (vae_encoder = "deleted" /\ cuda_cache_emptied)

====
